---- MODULE Spec2Model ----
(***************************************************************************)
(* Model of github.com/issue9/middleware: the compress middleware          *)
(* (codec registry, Accept-Encoding negotiation, response interceptor),    *)
(* handlers.NewCompress, the session middleware and the JWT verifier.      *)
(*                                                                         *)
(* Four specifications share the registry operations:                      *)
(*   SpecNeg  registry operations and findAlgorithm on one header,         *)
(*            keeping the header and the result of the call in the state;  *)
(*   Spec     registry operations and the life of one response object      *)
(*            (newResponse, WriteHeader, Write, close), every pool empty;  *)
(*   SpecLife a request from findAlgorithm to putAlgorithm, with the       *)
(*            pools, Hijack, a failing factory and registry calls made     *)
(*            while the request is served;                                 *)
(*   SpecRace SetAlgorithm(name, nil) statement by statement against the   *)
(*            lookups of other goroutines.                                 *)
(* Four more have a variable each:                                         *)
(*   SpecLegacy  the requests of handlers.NewCompress;                     *)
(*   SpecSession the requests of Session.Middleware on one store;          *)
(*   SpecJwt     Add* and the requests of Verifier.Middleware and          *)
(*               Verifier.VerifiyRefresh on one blocker;                   *)
(*   SpecPool    two requests at a time, their writers and the pools,      *)
(*               with SetAlgorithm in between.                             *)
(*                                                                         *)
(* Compress.New, canCompressed and the entry point (MiddlewareFunc) are    *)
(* not among the sources; they follow the design document.                 *)
(***************************************************************************)
EXTENDS Integers, Sequences, FiniteSets, TLC

VARIABLES
    algorithms,  \* Compress.algorithms: sequence of [name, wf]
    ret,         \* outcome of the last registry call: "true", "false", "void", "panic", "none"
    hdr,         \* the Accept-Encoding entries of the request, in header order
    neg,         \* what findAlgorithm returned for hdr
    types,       \* Compress.types: the Content-Type patterns given to New
    phase,       \* "idle", "serving" (a response object is in use) or "refused"
    resp,        \* the response object's fields
    h,           \* the header map of the real sink (resp.Header())
    sink,        \* what the real sink (resp.responseWriter) has received
    calls,       \* number of WriteHeader and Write calls made on resp
    hj,          \* what the last resp.Hijack call did
    done,        \* what the end of the last request did (close, putAlgorithm)
    mut,         \* a SetAlgorithm(name, nil) call between its two statements
    leg,         \* handlers.NewCompress: the last request and its answer
    sess,        \* the session middleware: store, cookies, last answer
    jw,          \* the JWT verifier: keys, blocker, last answer
    cc           \* concurrent requests: the pools and the writers held

vars == <<algorithms, ret, hdr, neg, types, phase, resp, h, sink, calls, hj, done, mut,
          leg, sess, jw, cc>>

\* the variables of the compress middleware
cvars == <<algorithms, ret, hdr, neg, types, phase, resp, h, sink, calls, hj, done, mut>>

----------------------------------------------------------------------------
(* Bounds                                                                  *)

MaxAlgs == 2        \* longest registry
MaxHeaderLen == 3   \* most entries in one Accept-Encoding header
MaxCalls == 3       \* most WriteHeader and Write calls on one response
MaxSessions == 2    \* most session ids handed out
MaxBlocked == 1     \* most tokens the blocker is asked to keep
MaxWriters == 2     \* most writers the pools build

----------------------------------------------------------------------------
(* Codec registry                                                          *)

Names == {"gzip", "deflate"}
Reserved == {"", "identity", "*"}
NilFunc == "nil"
WriterFuncs == {"NewGzip", "NewDeflate"}

\* a Writer value; NilWriter is the nil interface
\* a Writer value: the factory that built it, what it writes to and how
\* often it was closed since; NilWriter is the nil interface
NilWriter == [wf |-> NilFunc, bound |-> "nil", closes |-> 0]
PoolNew(wf) == [wf |-> wf, bound |-> "buffer", closes |-> 0]

\* a codec and its pool; of the writers put into a sync.Pool the model
\* keeps the one put last (NilWriter: none), the pool may drop the others
algorithm(name, wf) == [name |-> name, wf |-> wf, pool |-> NilWriter]

RegisteredNames(algs) == {algs[i].name : i \in 1..Len(algs)}

\* sliceutil.Count
Count(algs, name) == Cardinality({i \in 1..Len(algs) : algs[i].name = name})

\* mutant: only the first match is removed
Delete_First(algs, name) ==
    LET ok == {i \in 1..Len(algs) : algs[i].name = name}
        m == CHOOSE i \in ok : \A j \in ok : i <= j
    IN IF ok = {} THEN algs
       ELSE SubSeq(algs, 1, m - 1) \o SubSeq(algs, m + 1, Len(algs))

\* sliceutil.Delete followed by the reslice: the elements that do not match, in order
RECURSIVE Delete(_, _)
Delete(algs, name) ==
    IF algs = <<>> THEN <<>>
    ELSE IF Head(algs).name = name THEN Delete(Tail(algs), name)
    ELSE <<Head(algs)>> \o Delete(Tail(algs), name)

\* mutant: the name is not looked up before the append
AddResult_NoLookup(algs, name, wf) ==
    IF name \in Reserved THEN [algs |-> algs, ret |-> "panic"]
    ELSE IF wf = NilFunc THEN [algs |-> algs, ret |-> "panic"]
    ELSE [algs |-> Append(algs, algorithm(name, wf)), ret |-> "true"]

\* the registry after AddAlgorithm(name, wf), and what the call returns
AddResult(algs, name, wf) ==
    IF name \in Reserved THEN [algs |-> algs, ret |-> "panic"]
    ELSE IF wf = NilFunc THEN [algs |-> algs, ret |-> "panic"]
    ELSE IF Count(algs, name) > 0 THEN [algs |-> algs, ret |-> "false"]
    ELSE [algs |-> Append(algs, algorithm(name, wf)), ret |-> "true"]

SetAppend(algs, name, wf) == Append(algs, algorithm(name, wf))

\* the registry after SetAlgorithm(name, wf)
SetResult(algs, name, wf) ==
    IF name \in Reserved THEN [algs |-> algs, ret |-> "panic"]
    ELSE IF wf = NilFunc THEN [algs |-> Delete(algs, name), ret |-> "removed"]
    ELSE [algs |-> SetAppend(algs, name, wf), ret |-> "void"]

----------------------------------------------------------------------------
(* Accept-Encoding: qheader.AcceptEncoding and findAlgorithm               *)
(*                                                                         *)
(* qheader is a dependency: it parses the header into entries (Value, Q,   *)
(* Err) and returns them sorted, which is why gzip;q=0.8,deflate yields    *)
(* deflate in BenchmarkCompress_ServeHTTP.  An entry is modelled parsed;   *)
(* a header is the sequence of its entries in the order they were sent.    *)

\* quality weights in tenths: q=0, q=0.8 and q=1 (the default)
Qs == {0, 8, 10}
Values == Names \cup {"*", "identity"}
BadEntry == [Value |-> "gzip", Q |-> 0, Err |-> TRUE]    \* e.g.  gzip;q=x
Entries == [Value : Values, Q : Qs, Err : {FALSE}] \cup {BadEntry}
Headers == UNION {[1..n -> Entries] : n \in 0..MaxHeaderLen}

\* every result findAlgorithm can return is returned for one of these
ShortHeaders == {<<>>} \cup {<<e>> : e \in Entries}

\* qheader's order: entries with an error last, then by weight, the larger
\* first, then a name before the wildcard; otherwise the header's order
Less(a, b) ==
    IF a.Err THEN FALSE
    ELSE IF b.Err THEN TRUE
    ELSE IF a.Q # b.Q THEN a.Q > b.Q
    ELSE a.Value # "*" /\ b.Value = "*"

\* e placed before the first element it is less than (a stable insertion)
RECURSIVE Insert(_, _)
Insert(e, s) ==
    IF s = <<>> THEN <<e>>
    ELSE IF Less(e, Head(s)) THEN <<e>> \o s
    ELSE <<Head(s)>> \o Insert(e, Tail(s))

RECURSIVE SortFrom(_, _)
SortFrom(s, acc) ==
    IF s = <<>> THEN acc ELSE SortFrom(Tail(s), Insert(Head(s), acc))

\* mutant: the entries are left in header order
AcceptEncoding_Unsorted(header) == header

AcceptEncoding(header) == SortFrom(header, <<>>)

Min(S) == CHOOSE x \in S : \A y \in S : x <= y

NoResult == [name |-> "", f |-> NilWriter, notAcceptable |-> FALSE, line |-> 0]
Result(name, f, na, line) == [name |-> name, f |-> f, notAcceptable |-> na, line |-> line]

\* the inner loops of the * branch: the index of the codec returned, 0 if none
StarIndex(algs, accepts) ==
    LET ok == {i \in 1..Len(algs) :
                 \E k \in 1..Len(accepts) : accepts[k].Value # algs[i].name}
    IN IF ok = {} THEN 0 ELSE Min(ok)

\* mutant: the codec's name is not compared with the entry
NameIndex_Any(algs, v) == IF algs = <<>> THEN 0 ELSE 1

\* the last loop: the index of the first codec named v, 0 if none
NameIndex(algs, v) ==
    LET ok == {i \in 1..Len(algs) : algs[i].name = v}
    IN IF ok = {} THEN 0 ELSE Min(ok)

\* mutant: the weight of a * entry is not looked at
StarRefuses_Never(accept) == FALSE

\* the test of line 117 on a * entry
StarRefuses(accept) == accept.Q = 0

\* mutant: identity is treated as a codec name
IsIdentity_Never(accept) == FALSE

\* the test of line 131
IsIdentity(accept) == accept.Value = "identity"

\* the body of the loop over accepts, from entry k on
RECURSIVE findFrom(_, _, _)
findFrom(algs, accepts, k) ==
    IF k > Len(accepts) THEN Result("", NilWriter, FALSE, 142)
    ELSE LET accept == accepts[k] IN
      IF accept.Err THEN findFrom(algs, accepts, k + 1)
      ELSE IF accept.Value = "*" THEN
        IF StarRefuses(accept) THEN Result("", NilWriter, TRUE, 118)
        ELSE LET i == StarIndex(algs, accepts) IN
          IF i # 0 THEN Result(algs[i].name, PoolNew(algs[i].wf), FALSE, 124)
          ELSE findFrom(algs, accepts, k + 1)
      ELSE IF IsIdentity(accept) THEN Result("", NilWriter, FALSE, 132)
      ELSE LET i == NameIndex(algs, accept.Value) IN
          IF i # 0 THEN Result(algs[i].name, PoolNew(algs[i].wf), FALSE, 137)
          ELSE findFrom(algs, accepts, k + 1)

findAlgorithm(algs, header) == findFrom(algs, AcceptEncoding(header), 1)

----------------------------------------------------------------------------
(* Content types, the Content-Type filter, statuses                        *)

MediaType(t, sub, p) == [t |-> t, s |-> sub, p |-> p]
NoType == MediaType("", "", "")                      \* header not set
TextHtml == MediaType("text", "html", "")
ImagePng == MediaType("image", "png", "")
TextPlainUtf8 == MediaType("text", "plain", "charset=utf-8")
OctetStream == MediaType("application", "octet-stream", "")

\* the chunks a handler writes; NoBytes is the nil slice of WriteHeader
NoBytes == "nil"
Bodies == {"", "text", "bin"}

\* http.DetectContentType on the chunk
DetectContentType(bs) == IF bs = "bin" THEN OctetStream ELSE TextPlainUtf8

\* patterns of the filter: a media type, type/*, or *
Pattern(t, sub) == [t |-> t, s |-> sub]
AnyType == Pattern("*", "")
TypeConfigs == {{}, {Pattern("text", "*")}, {AnyType}}

\* Compress.canCompressed: the parameters are dropped, then some pattern matches
canCompressed(ts, ct) ==
    LET bare == Pattern(ct.t, ct.s)
    IN \E pat \in ts :
         \/ pat = AnyType
         \/ pat = bare
         \/ pat.s = "*" /\ pat.t = bare.t

\* the statuses a handler passes to WriteHeader; 1xx is left out, since
\* whether the sink takes it for the final status depends on the Go release
Statuses == {200, 204, 304}
StatusOK == 200

bodyAllowedForStatus(status) ==
    IF status >= 100 /\ status <= 199 THEN FALSE
    ELSE IF status = 204 THEN FALSE
    ELSE IF status = 304 THEN FALSE
    ELSE TRUE

----------------------------------------------------------------------------
(* handlers.NewCompress, the handler of src/compress.go                    *)

\* what stands between the commas of Accept-Encoding; "" alone is the
\* header that is absent or empty
LegacyTokens == {"", "gzip", "deflate", "GZIP", " gzip", "br"}
LegacyHeaders == UNION {[1..n -> LegacyTokens] : n \in 1..MaxHeaderLen}

\* strings.ToLower
ToLower(t) == IF t = "GZIP" THEN "gzip" ELSE t

\* the loop over encodings from element k on: the writer built and the
\* value the variable encoding has when the loop is left
RECURSIVE LegacyScan(_, _)
LegacyScan(header, k) ==
    LET e == ToLower(header[k])
    IN IF e = "gzip" THEN [gzw |-> "gzip", encoding |-> e]
       ELSE IF e = "deflate" THEN [gzw |-> "deflate", encoding |-> e]
       ELSE IF k = Len(header) THEN [gzw |-> "nil", encoding |-> e]
       ELSE LegacyScan(header, k + 1)

\* no request yet.  gzw: the writer built; set, encoding: Content-Encoding
\* and whether it was set; next: the writer the handler was called with
\* ("w" the sink, "cw" the compressWriter); panic: defer gzw.Close() on nil
NoLegacy == [header |-> <<>>, hijacker |-> FALSE, gzw |-> "nil", set |-> FALSE,
             encoding |-> "", next |-> "none", panic |-> FALSE]

\* compress.ServeHTTP
LegacyServeHTTP(header, hijacker) ==
    IF ~hijacker
    THEN [header |-> header, hijacker |-> hijacker, gzw |-> "nil", set |-> FALSE,
          encoding |-> "", next |-> "w", panic |-> FALSE]
    ELSE LET m == LegacyScan(header, 1)
         IN [header |-> header, hijacker |-> hijacker, gzw |-> m.gzw, set |-> TRUE,
             encoding |-> m.encoding,
             next |-> IF m.gzw = "nil" THEN "none" ELSE "cw",
             panic |-> m.gzw = "nil"]

LegacyRequest ==
    /\ \E header \in LegacyHeaders, hijacker \in BOOLEAN :
         leg' = LegacyServeHTTP(header, hijacker)
    /\ UNCHANGED <<cvars, sess, jw, cc>>

----------------------------------------------------------------------------
(* The session middleware (package session)                                *)
(*                                                                         *)
(* Store[T] is an interface; the store here is a map that never fails, and *)
(* Get of an id that is not stored returns nil, the case lines 130-133     *)
(* are written for.  T is a counter; its zero value is 0.                  *)

SessIds == 1..MaxSessions
Vals == {0, 1, 2}
Zero == 0
Absent == -1                 \* nil / not stored / no cookie
BadCookie == -2              \* a cookie value url.QueryUnescape rejects

\* ids are made of letters and digits: url.QueryEscape and QueryUnescape
\* leave them as they are
QueryEscape(id) == id
QueryUnescape(c) == IF c = BadCookie THEN [id |-> Absent, err |-> TRUE]
                    ELSE [id |-> c, err |-> FALSE]

\* what the handler behind the middleware does with the session
SessOps == {"get", "set1", "set2", "del", "logout"}

\* no request yet.  issued: ids handed out by UniqueID; want: the value a
\* request of the session is to see (Absent: nothing saved or deleted yet);
\* the other fields describe the last request and its answer
NoSessions ==
    [store |-> [i \in SessIds |-> Absent], issued |-> 0,
     want |-> [i \in SessIds |-> Absent],
     cookie |-> Absent, id |-> Absent, setCookie |-> Absent, status |-> 0,
     next |-> FALSE, got |-> Absent, wanted |-> Absent]

\* the handler: GetValue, then one of SetValue, DelValue, Logout
SessHandler(store, id, op) ==
    IF op = "set1" THEN [store EXCEPT ![id] = 1]
    ELSE IF op = "set2" THEN [store EXCEPT ![id] = 2]
    ELSE IF op \in {"del", "logout"} THEN [store EXCEPT ![id] = Absent]
    ELSE store

\* Session.Middleware for a request with the cookie value c (Absent: none)
SessionMiddleware(ss, c, op) ==
    LET fresh == c = Absent
        u == IF fresh THEN [id |-> ss.issued + 1, err |-> FALSE]
             ELSE QueryUnescape(c)
        id == u.id
        base == [ss EXCEPT !.cookie = c, !.id = id, !.got = Absent,
                           !.wanted = IF id \in SessIds THEN ss.want[id] ELSE Absent,
                           !.issued = IF fresh THEN @ + 1 ELSE @]
    IN IF u.err
       THEN [base EXCEPT !.setCookie = Absent, !.status = 500, !.next = FALSE]
       ELSE IF ss.store[id] = Absent
       THEN [base EXCEPT !.setCookie = QueryEscape(id), !.status = 401,
                         !.next = FALSE, !.store[id] = Zero]
       ELSE [base EXCEPT !.setCookie = QueryEscape(id),
                         !.status = IF op = "logout" THEN 204 ELSE 200,
                         !.next = TRUE, !.got = ss.store[id],
                         !.store = SessHandler(ss.store, id, op),
                         !.want[id] = IF op \in {"set1", "set2"}
                                      THEN SessHandler(ss.store, id, op)[id]
                                      ELSE IF op \in {"del", "logout"} THEN Zero
                                      ELSE @]

\* a request without cookie, with a cookie the middleware has set, or with
\* a cookie that does not unescape
Visit ==
    /\ \E c \in {Absent, BadCookie} \cup 1..sess.issued, op \in SessOps :
         /\ (c = Absent) => sess.issued < MaxSessions
         /\ sess' = SessionMiddleware(sess, c, op)
    /\ UNCHANGED <<cvars, leg, jw, cc>>

----------------------------------------------------------------------------
(* The JWT verifier (package jwt)                                          *)
(*                                                                         *)
(* A token is its header (kid, alg), how it was signed (by) and the kind   *)
(* of its claims (refresh).  Blocker is an interface; the blocker here     *)
(* keeps the set of the tokens it was told to block, and BlockToken may    *)
(* fail, in which case the token is not in the set.  Claims that are out   *)
(* of date are left out: every token is in its time of validity.           *)

NoKid == "none"
KeyIds == {"k1", "k2"}
\* what AddHMAC and AddRSA register: a method with the key material for it
KeyKinds == {<<"HS256", "secret">>, <<"RS256", "pub">>}
\* how a token can be signed; <<"HS256", "pub">> is an HMAC whose secret is
\* the public key of the RSA pair
Signers == KeyKinds \cup {<<"HS256", "pub">>}
Algs == {"HS256", "RS256", "bogus"}
\* the tokens presented: with the kid k1 or without kid
Tokens == [kid : {"k1", NoKid}, alg : Algs, by : Signers, refresh : BOOLEAN]
NoToken == [kid |-> NoKid, alg |-> "", by |-> <<"", "">>, refresh |-> FALSE]

\* jwt.GetSigningMethod: the method registered under the name, "nil" if none
GetSigningMethod(alg) == IF alg \in {"HS256", "RS256"} THEN alg ELSE "nil"

\* SigningMethod.Verify: the signature was made by the method with the key
Verify(method, keyData, t) == t.by = <<method, keyData>>

RECURSIVE IndexFunc(_, _, _)
\* slices.IndexFunc(j.keys, e.id == id): the first index from k on, 0 if none
IndexFunc(keys, id, k) ==
    IF k > Len(keys) THEN 0
    ELSE IF keys[k].id = id THEN k
    ELSE IndexFunc(keys, id, k + 1)

\* mutant: the method the token declares is kept
keyFunc_KeepsAlg(keys, t) ==
    IF Len(keys) = 0 \/ IndexFunc(keys, t.kid, 1) = 0
    THEN [err |-> TRUE, key |-> "", method |-> "nil"]
    ELSE [err |-> FALSE, key |-> keys[IndexFunc(keys, t.kid, 1)].key,
          method |-> GetSigningMethod(t.alg)]

\* Verifier.keyFunc: the key and the method registered under the token's kid
keyFunc(keys, t) ==
    IF Len(keys) = 0
    THEN [err |-> TRUE, key |-> "", method |-> "nil"]
    ELSE IF t.kid # NoKid /\ IndexFunc(keys, t.kid, 1) > 0
    THEN [err |-> FALSE, key |-> keys[IndexFunc(keys, t.kid, 1)].key,
          method |-> keys[IndexFunc(keys, t.kid, 1)].sign]
    ELSE [err |-> TRUE, key |-> "", method |-> "nil"]

\* jwt.ParseWithClaims with keyFunc: the method named by alg must exist,
\* then keyFunc gives key and method, then the signature is verified
ParseWithClaims(keys, t) ==
    LET k == keyFunc(keys, t)
    IN IF GetSigningMethod(t.alg) = "nil" \/ k.err
       THEN [err |-> TRUE, sign |-> "nil", key |-> ""]
       ELSE [err |-> ~Verify(k.method, k.key, t), sign |-> k.method, key |-> k.key]

\* mutant: the kind of the claims is not looked at
KindDiffers_Never(refresh, t) == FALSE

\* refresh != claims.IsRefresh()
KindDiffers(refresh, t) == refresh # t.refresh

\* Verifier.addKey
addKey(keys, id, sign, keyData) ==
    IF IndexFunc(keys, id, 1) > 0
    THEN [keys |-> keys, panic |-> TRUE]
    ELSE [keys |-> Append(keys, [id |-> id, sign |-> sign, key |-> keyData]),
          panic |-> FALSE]

\* NewVerifier, no request yet.  accepted: the tokens VerifiyRefresh has
\* passed on; panicked: the last Add has panicked; the fields from token
\* on describe the last request
NoVerifier ==
    [keys |-> <<>>, blocked |-> {}, accepted |-> {}, panicked |-> FALSE,
     token |-> NoToken, refresh |-> FALSE, status |-> 0, next |-> FALSE,
     wasBlocked |-> FALSE, wasAccepted |-> FALSE, claimsBlocked |-> FALSE,
     sign |-> "nil", key |-> ""]

\* what the blocker does in a request: "fails": BlockToken returns an
\* error; "claims": ClaimsIsBlocked is true
BlockerCases == {"ok", "fails", "claims"}

\* Verifier.resp for the token t
VerifierResp(j, t, refresh, b) ==
    LET p == ParseWithClaims(j.keys, t)
        base == [j EXCEPT !.token = t, !.refresh = refresh,
                          !.wasBlocked = t \in j.blocked,
                          !.wasAccepted = t \in j.accepted,
                          !.claimsBlocked = FALSE, !.sign = "nil", !.key = "",
                          !.status = 401, !.next = FALSE]
        parsed == [base EXCEPT !.sign = p.sign, !.key = p.key]
    IN IF t = NoToken \/ t \in j.blocked THEN base
       ELSE IF p.err THEN base
       ELSE IF KindDiffers(refresh, t) THEN parsed
       ELSE IF b = "claims" THEN [parsed EXCEPT !.claimsBlocked = TRUE]
       ELSE [parsed EXCEPT
               !.blocked = IF refresh /\ b # "fails" THEN @ \cup {t} ELSE @,
               !.accepted = IF refresh THEN @ \cup {t} ELSE @,
               !.status = 200,
               !.next = TRUE]

\* AddHMAC, AddRSA
AddKey ==
    /\ \E id \in KeyIds, kind \in KeyKinds :
         LET r == addKey(jw.keys, id, kind[1], kind[2])
         IN jw' = [jw EXCEPT !.keys = r.keys, !.panicked = r.panic]
    /\ UNCHANGED <<cvars, leg, sess, cc>>

\* a request through Middleware (refresh FALSE) or VerifiyRefresh (TRUE)
Verified ==
    /\ \E t \in Tokens \cup {NoToken}, refresh \in BOOLEAN, b \in BlockerCases :
         /\ jw' = VerifierResp(jw, t, refresh, b)
         /\ Cardinality(jw'.blocked) <= MaxBlocked
         /\ Cardinality(jw'.accepted) <= MaxBlocked
    /\ UNCHANGED <<cvars, leg, sess, cc>>

NextJwt == AddKey \/ Verified

----------------------------------------------------------------------------
(* The pools under requests that run at the same time                      *)
(*                                                                         *)
(* Writers are numbered in the order the pools' New built them; the pool   *)
(* of a codec is the set of the writers put into it.  Every request holds  *)
(* the name and the writer findAlgorithm returned until it gives them to   *)
(* putAlgorithm.  A call of the registry or of a pool is one step.         *)

Procs == {1, 2}
Writers == 1..MaxWriters
NoWriter == 0

\* nothing registered, no writer built, no request.  maker, under: the
\* factory that built a writer and the name it was last acquired under
NoPools ==
    [algs |-> <<>>, made |-> 0,
     maker |-> [w \in Writers |-> NilFunc], under |-> [w \in Writers |-> ""],
     req |-> [p \in Procs |-> [on |-> FALSE, name |-> "", w |-> NoWriter]]]

\* what SetAlgorithm appends starts with an empty pool
EmptyPools(old, new) ==
    IF Len(new) > Len(old) THEN [new EXCEPT ![Len(new)].pool = {}] ELSE new

\* the headers of the requests: one codec by its name, or any codec
PoolHeaders == {<<[Value |-> v, Q |-> 10, Err |-> FALSE]>> : v \in Names \cup {"*"}}

\* a.pool.Get(): a writer of the pool, or the next one, built by New
PoolGetAny(c, i) ==
    {[w |-> w, made |-> c.made, new |-> FALSE] : w \in c.algs[i].pool}
    \cup (IF c.made < MaxWriters
          THEN {[w |-> c.made + 1, made |-> c.made + 1, new |-> TRUE]}
          ELSE {})

\* mutant: the writer goes to the first codec, whatever its name
PoolPut_FirstPool(algs, name, w) ==
    IF w = NoWriter \/ algs = <<>> THEN algs
    ELSE [algs EXCEPT ![1].pool = @ \cup {w}]

\* Compress.putAlgorithm on pools of numbered writers
PoolPut(algs, name, w) ==
    LET i == NameIndex(algs, name)
    IN IF w = NoWriter THEN algs
       ELSE IF i = 0 THEN algs
       ELSE [algs EXCEPT ![i].pool = @ \cup {w}]

PoolSetAlgorithm(name, wf) ==
    /\ LET r == SetResult(cc.algs, name, wf) IN
         /\ Len(r.algs) <= MaxAlgs
         /\ cc' = [cc EXCEPT !.algs = EmptyPools(cc.algs, r.algs)]
    /\ UNCHANGED <<cvars, leg, sess, jw>>

\* request p begins: findAlgorithm with the header, the writer taken from
\* the pool of the codec it names
Acquire(p) ==
    /\ ~cc.req[p].on
    /\ \E header \in PoolHeaders :
         LET n == findAlgorithm(cc.algs, header)
             i == NameIndex(cc.algs, n.name)
         IN IF i = 0
            THEN cc' = [cc EXCEPT !.req[p] = [on |-> TRUE, name |-> n.name, w |-> NoWriter]]
            ELSE \E g \in PoolGetAny(cc, i) :
                   cc' = [cc EXCEPT
                            !.algs[i].pool = @ \ {g.w},
                            !.made = g.made,
                            !.maker[g.w] = IF g.new THEN cc.algs[i].wf ELSE @,
                            !.under[g.w] = n.name,
                            !.req[p] = [on |-> TRUE, name |-> n.name, w |-> g.w]]
    /\ UNCHANGED <<cvars, leg, sess, jw>>

\* request p ends: putAlgorithm with the name and the writer it holds; of
\* a writer that went to no pool nothing is remembered
Release(p) ==
    /\ cc.req[p].on
    /\ LET w == cc.req[p].w
           algs == PoolPut(cc.algs, cc.req[p].name, w)
           lost == w # NoWriter /\ algs = cc.algs
       IN cc' = [cc EXCEPT !.algs = algs,
                           !.maker = IF lost THEN [@ EXCEPT ![w] = NilFunc] ELSE @,
                           !.under = IF lost THEN [@ EXCEPT ![w] = ""] ELSE @,
                           !.req[p] = [on |-> FALSE, name |-> "", w |-> NoWriter]]
    /\ UNCHANGED <<cvars, leg, sess, jw>>

NextPool ==
    \/ \E name \in Names, wf \in WriterFuncs \cup {NilFunc} : PoolSetAlgorithm(name, wf)
    \/ \E p \in Procs : Acquire(p)
    \/ \E p \in Procs : Release(p)


----------------------------------------------------------------------------
(* Initial state and the registry actions                                  *)

NoResp == [writer |-> "nil", compressWriter |-> NilWriter, wroteHeader |-> FALSE,
           f |-> NilWriter, encodingName |-> ""]
NoHeader == [ContentLength |-> FALSE, ContentType |-> NoType, ContentEncoding |-> "",
             Vary |-> <<>>]
NoSink == [status |-> 0, header |-> NoHeader, raw |-> 0, coded |-> 0]

\* no Hijack call yet: whether the sink is an http.Hijacker, what the
\* sink's Hijack returned and what resp.Hijack returned
NoHijack == [impl |-> FALSE, sink |-> "none", ret |-> "none"]

\* no request has ended yet
NotDone == [closes |-> 0, closeErr |-> FALSE, logged |-> 0,
            respPooled |-> FALSE, put |-> "none", panicked |-> FALSE]

\* no removal is in progress.  pc: the line of SetAlgorithm that runs next
\* (0: none); before, after: the registry when the call began and what it
\* will be when the call has returned; seen: the list a lookup of another
\* goroutine read meanwhile, if one looked
NoMut == [pc |-> 0, before |-> <<>>, after |-> <<>>, looked |-> FALSE, seen |-> <<>>]

Init ==
    /\ algorithms = <<>>
    /\ ret = "none"
    /\ hdr = <<>>
    /\ neg = NoResult
    /\ types \in TypeConfigs
    /\ phase = "idle"
    /\ resp = NoResp
    /\ h = NoHeader
    /\ sink = NoSink
    /\ calls = 0
    /\ hj = NoHijack
    /\ done = NotDone
    /\ mut = NoMut
    /\ leg = NoLegacy
    /\ sess = NoSessions
    /\ jw = NoVerifier
    /\ cc = NoPools

\* no request is being served and no registry call is half done
Idle == phase = "idle" /\ neg.line = 0 /\ mut.pc = 0

AddAlgorithm(name, wf) ==
    /\ Idle
    /\ LET r == AddResult(algorithms, name, wf) IN
         /\ Len(r.algs) <= MaxAlgs
         /\ algorithms' = r.algs
         /\ ret' = r.ret
    /\ UNCHANGED <<hdr, neg, types, phase, resp, h, sink, calls, hj, done, mut, leg, sess, jw, cc>>

SetAlgorithm(name, wf) ==
    /\ Idle
    /\ LET r == SetResult(algorithms, name, wf) IN
         /\ Len(r.algs) <= MaxAlgs
         /\ algorithms' = r.algs
         /\ ret' = r.ret
    /\ UNCHANGED <<hdr, neg, types, phase, resp, h, sink, calls, hj, done, mut, leg, sess, jw, cc>>

----------------------------------------------------------------------------
(* SpecNeg: one findAlgorithm call at a time                               *)

Negotiate ==
    /\ Idle
    /\ \E header \in Headers :
         /\ hdr' = header
         /\ neg' = findAlgorithm(algorithms, header)
    /\ ret' = "none"
    /\ UNCHANGED <<algorithms, types, phase, resp, h, sink, calls, hj, done, mut, leg, sess, jw, cc>>

\* the request is over: its header and result are dropped
Forget ==
    /\ phase = "idle"
    /\ neg.line # 0
    /\ hdr' = <<>>
    /\ neg' = NoResult
    /\ UNCHANGED <<algorithms, ret, types, phase, resp, h, sink, calls, hj, done, mut, leg, sess, jw, cc>>

InitNeg == Init /\ types = {AnyType}

NextNeg ==
    \/ \E name \in Names \cup Reserved, wf \in {"NewGzip", NilFunc} :
           AddAlgorithm(name, wf)
    \/ \E name \in Names \cup Reserved, wf \in {"NewGzip", NilFunc} :
           SetAlgorithm(name, wf)
    \/ Negotiate
    \/ Forget

SpecNeg == InitNeg /\ [][NextNeg]_vars

----------------------------------------------------------------------------
(* Spec: the response object                                               *)

\* mutant: the fields of the decision are left as the pooled object has them
newResponse_KeepsDecision(r, f, encodingName) ==
    [r EXCEPT !.f = f, !.encodingName = encodingName]

\* Compress.newResponse on the object r taken from respPool: every field
\* is overwritten
newResponse(r, f, encodingName) ==
    [r EXCEPT !.writer = "nil", !.compressWriter = NilWriter,
              !.wroteHeader = FALSE, !.f = f, !.encodingName = encodingName]

\* the real sink's WriteHeader: the first call sends status and header,
\* a later call is ignored
SinkWriteHeader(sk, hd, status) ==
    IF sk.status # 0 THEN sk
    ELSE [sk EXCEPT !.status = status, !.header = hd]

\* mutant: Reset leaves the writer bound to what it was bound to
Reset_Noop(f, w) == f

\* Writer.Reset(w)
Reset(f, w) == [f EXCEPT !.bound = w, !.closes = 0]

\* response.writeHeader(status, bs) with its deferred call;
\* the response, header map and sink afterwards
writeHeader(r, hd, sk, ts, status, bs) ==
    LET h1 == [hd EXCEPT !.ContentLength = FALSE]
        ct == IF h1.ContentType = NoType THEN DetectContentType(bs)
              ELSE h1.ContentType
        h2 == [h1 EXCEPT !.ContentType = ct]
    IN IF r.f = NilWriter \/ ~bodyAllowedForStatus(status) \/ ~canCompressed(ts, ct)
       THEN [resp |-> [r EXCEPT !.writer = "responseWriter", !.wroteHeader = TRUE],
             h |-> h2,
             sink |-> SinkWriteHeader(sk, h2, status)]
       ELSE LET f1 == Reset(r.f, "responseWriter")
                h3 == [h2 EXCEPT !.ContentEncoding = r.encodingName,
                                 !.Vary = Append(@, "Content-Encoding")]
            IN [resp |-> [r EXCEPT !.f = f1, !.compressWriter = f1,
                                   !.writer = "compressWriter",
                                   !.wroteHeader = TRUE],
                h |-> h3,
                sink |-> SinkWriteHeader(sk, h3, status)]

\* resp.writer.Write(bs): the chunk goes to the sink as it is, or through
\* the codec writer to what that writer is bound to
WriterWrite(r, sk, bs) ==
    LET n == IF bs = "" THEN 0 ELSE 1
    IN IF r.writer = "compressWriter"
       THEN [sk EXCEPT !.coded = @ + n]
       ELSE [sk EXCEPT !.raw = @ + n]

\* the entry point: negotiation, then a response object wrapped around the
\* sink of the request; nothing is wrapped when the client refuses everything
Request ==
    /\ Idle
    /\ \E header \in ShortHeaders :
         LET r == findAlgorithm(algorithms, header) IN
           IF r.notAcceptable
           THEN phase' = "refused" /\ resp' = resp
           ELSE phase' = "serving" /\ resp' = newResponse(resp, r.f, r.name)
    /\ ret' = "none"
    /\ h' = NoHeader
    /\ sink' = NoSink
    /\ calls' = 0
    /\ UNCHANGED <<algorithms, hdr, neg, types, hj, done, mut, leg, sess, jw, cc>>

\* the handler sets a header field through resp.Header(), before the
\* header is written (a later change reaches no client)
HeaderSet ==
    /\ phase = "serving"
    /\ ~resp.wroteHeader
    /\ \/ \E ct \in {TextHtml, ImagePng} : h' = [h EXCEPT !.ContentType = ct]
       \/ h' = [h EXCEPT !.ContentLength = TRUE]
       \/ h.Vary = <<>> /\ h' = [h EXCEPT !.Vary = <<"Accept">>]
    /\ UNCHANGED <<algorithms, ret, hdr, neg, types, phase, resp, sink, calls, hj, done, mut, leg, sess, jw, cc>>

WriteHeader(status) ==
    /\ phase = "serving"
    /\ calls < MaxCalls
    /\ LET w == writeHeader(resp, h, sink, types, status, NoBytes) IN
         /\ resp' = w.resp
         /\ h' = w.h
         /\ sink' = w.sink
    /\ calls' = calls + 1
    /\ UNCHANGED <<algorithms, ret, hdr, neg, types, phase, hj, done, mut, leg, sess, jw, cc>>

\* mutant: the first Write sends no header
Write_NoHeader(bs) ==
    /\ phase = "serving"
    /\ calls < MaxCalls
    /\ sink' = WriterWrite(resp, sink, bs)
    /\ calls' = calls + 1
    /\ UNCHANGED <<algorithms, ret, hdr, neg, types, phase, resp, h, hj, done, mut, leg, sess, jw, cc>>

Write(bs) ==
    /\ phase = "serving"
    /\ calls < MaxCalls
    /\ LET w == IF ~resp.wroteHeader
                THEN writeHeader(resp, h, sink, types, StatusOK, bs)
                ELSE [resp |-> resp, h |-> h, sink |-> sink]
       IN /\ resp' = w.resp
          /\ h' = w.h
          /\ sink' = WriterWrite(w.resp, w.sink, bs)
    /\ calls' = calls + 1
    /\ UNCHANGED <<algorithms, ret, hdr, neg, types, phase, hj, done, mut, leg, sess, jw, cc>>

\* response.close at the end of the request: the codec writer, if one was
\* spliced in, is closed and the object goes back to respPool as it is
Close ==
    /\ phase = "serving"
    /\ phase' = "idle"
    /\ h' = NoHeader
    /\ sink' = NoSink
    /\ calls' = 0
    /\ UNCHANGED <<algorithms, ret, hdr, neg, types, resp, hj, done, mut, leg, sess, jw, cc>>

\* a refused request ends
Refused ==
    /\ phase = "refused"
    /\ phase' = "idle"
    /\ UNCHANGED <<algorithms, ret, hdr, neg, types, resp, h, sink, calls, hj, done, mut, leg, sess, jw, cc>>

Next ==
    \/ \E name \in Names \cup Reserved, wf \in WriterFuncs \cup {NilFunc} :
           AddAlgorithm(name, wf)
    \/ \E name \in Names \cup Reserved, wf \in WriterFuncs \cup {NilFunc} :
           SetAlgorithm(name, wf)
    \/ Request
    \/ HeaderSet
    \/ \E status \in Statuses : WriteHeader(status)
    \/ \E bs \in Bodies : Write(bs)
    \/ Close
    \/ Refused

Spec == Init /\ [][Next]_vars

----------------------------------------------------------------------------
(* SpecLife: a request from negotiation to its end, with the pools, a      *)
(* factory that fails, Hijack, and the registry changed while the request  *)
(* is served.  The handler sets no header field here.                      *)

\* a WriterFunc that returns an error, as flate.NewWriter does for a level
\* out of range
FailingFunc == "NewFailing"

\* pool.Get(): the writer put last, or one built by New, which panics with
\* the factory's error; the outcomes of one call on codec a
PoolGet(a) ==
    {[panic |-> a.wf = FailingFunc, f |-> PoolNew(a.wf), pool |-> a.pool]}
    \cup (IF a.pool = NilWriter THEN {}
          ELSE {[panic |-> FALSE, f |-> a.pool, pool |-> NilWriter]})

\* mutant: the nil test is inverted
putAlgorithm_Inverted(algs, name, w) ==
    LET i == NameIndex(algs, name)
    IN IF w # NilWriter THEN [algs |-> algs, put |-> "nil"]
       ELSE IF i = 0 THEN [algs |-> algs, put |-> "dropped"]
       ELSE [algs |-> [algs EXCEPT ![i].pool = w], put |-> "pooled"]

\* Compress.putAlgorithm: the registry afterwards and what became of w
putAlgorithm(algs, name, w) ==
    LET i == NameIndex(algs, name)
    IN IF w = NilWriter THEN [algs |-> algs, put |-> "nil"]
       ELSE IF i = 0 THEN [algs |-> algs, put |-> "dropped"]
       ELSE [algs |-> [algs EXCEPT ![i].pool = w], put |-> "pooled"]

\* mutant: a Close that fails ends close before respPool.Put
close_ReturnOnError(r, err) ==
    LET spliced == r.compressWriter # NilWriter
    IN [f |-> IF spliced THEN [r.f EXCEPT !.closes = @ + 1] ELSE r.f,
        closes |-> IF spliced THEN 1 ELSE 0,
        closeErr |-> spliced /\ err,
        logged |-> IF spliced /\ err THEN 1 ELSE 0,
        respPooled |-> ~(spliced /\ err)]

\* response.close; err: compressWriter.Close() returns an error.  resp.f
\* and resp.compressWriter are the same object once one was spliced in
close(r, err) ==
    LET spliced == r.compressWriter # NilWriter
    IN [f |-> IF spliced THEN [r.f EXCEPT !.closes = @ + 1] ELSE r.f,
        closes |-> IF spliced THEN 1 ELSE 0,
        closeErr |-> spliced /\ err,
        logged |-> IF spliced /\ err THEN 1 ELSE 0,
        respPooled |-> TRUE]

\* mutant: a sink that is no http.Hijacker yields an error
HijackResult_Error(impl, sinkRes) == IF impl THEN sinkRes ELSE "err"

\* what resp.Hijack returns; sinkRes is what the sink's Hijack returns
HijackResult(impl, sinkRes) == IF impl THEN sinkRes ELSE "panic"

\* the entry point with the pools: findAlgorithm takes the writer from the
\* pool of the codec it returns, the first of that name.  A panic of the
\* pool's New ends the request before a response object exists
Serve ==
    /\ Idle
    /\ \E header \in ShortHeaders :
         LET r == findAlgorithm(algorithms, header)
             i == NameIndex(algorithms, r.name)
         IN IF r.notAcceptable
            THEN phase' = "refused" /\ resp' = resp /\ algorithms' = algorithms
            ELSE IF r.f = NilWriter
            THEN /\ phase' = "serving"
                 /\ resp' = newResponse(resp, NilWriter, r.name)
                 /\ algorithms' = algorithms
            ELSE \E g \in PoolGet(algorithms[i]) :
                   IF g.panic
                   THEN /\ phase' = "panicked"
                        /\ resp' = resp
                        /\ algorithms' = algorithms
                   ELSE /\ phase' = "serving"
                        /\ resp' = newResponse(resp, g.f, r.name)
                        /\ algorithms' = [algorithms EXCEPT ![i].pool = g.pool]
    /\ ret' = "none"
    /\ h' = NoHeader
    /\ sink' = NoSink
    /\ calls' = 0
    /\ hj' = NoHijack
    /\ done' = NotDone
    /\ UNCHANGED <<hdr, neg, types, mut, leg, sess, jw, cc>>

\* the panic of findAlgorithm was recovered by the server
Recovered ==
    /\ phase = "panicked"
    /\ phase' = "idle"
    /\ UNCHANGED <<algorithms, ret, hdr, neg, types, resp, h, sink, calls, hj, done, mut, leg, sess, jw, cc>>

\* AddAlgorithm and SetAlgorithm called by another goroutine while the
\* request is served; they touch nothing of the response, so the calls
\* are taken before the handler's first call; what they return goes to
\* that goroutine and is not recorded
Live == phase = "serving" /\ calls = 0 /\ hj = NoHijack

LiveAddAlgorithm(name, wf) ==
    /\ Live
    /\ LET r == AddResult(algorithms, name, wf) IN
         /\ Len(r.algs) <= MaxAlgs
         /\ algorithms' = r.algs
    /\ UNCHANGED <<ret, hdr, neg, types, phase, resp, h, sink, calls, hj, done, mut, leg, sess, jw, cc>>

LiveSetAlgorithm(name, wf) ==
    /\ Live
    /\ LET r == SetResult(algorithms, name, wf) IN
         /\ Len(r.algs) <= MaxAlgs
         /\ algorithms' = r.algs
    /\ UNCHANGED <<ret, hdr, neg, types, phase, resp, h, sink, calls, hj, done, mut, leg, sess, jw, cc>>

\* resp.Hijack, once per request.  With the connection handed over the
\* handler makes no further call on resp; a panic unwinds the handler
Hijack ==
    /\ phase = "serving"
    /\ hj = NoHijack
    /\ \E impl \in BOOLEAN, sinkRes \in {"conn", "err"} :
         LET res == HijackResult(impl, sinkRes) IN
           /\ hj' = [impl |-> impl,
                     sink |-> IF impl THEN sinkRes ELSE "none",
                     ret |-> res]
           /\ phase' = IF res = "conn" THEN "hijacked"
                       ELSE IF res = "panic" THEN "unwinding"
                       ELSE "serving"
    /\ UNCHANGED <<algorithms, ret, hdr, neg, types, resp, h, sink, calls, done, mut, leg, sess, jw, cc>>

\* the sink of a request that is over is the sink of an earlier request
\* to whatever comes after
Retire(w) ==
    IF w.bound = "responseWriter" THEN [w EXCEPT !.bound = "earlier"] ELSE w

\* the end of the request: resp.close(), then putAlgorithm with the
\* negotiated name and writer
Cleanup(panicked) ==
    /\ \E err \in BOOLEAN :
         LET c == close(resp, err)
             w == Retire(c.f)
             u == putAlgorithm(algorithms, resp.encodingName, w)
         IN /\ algorithms' = u.algs
            /\ resp' = [resp EXCEPT !.f = w,
                          !.compressWriter = IF @ = NilWriter THEN @ ELSE w]
            /\ done' = [closes |-> c.closes, closeErr |-> c.closeErr,
                        logged |-> c.logged, respPooled |-> c.respPooled,
                        put |-> u.put, panicked |-> panicked]
    /\ phase' = "idle"
    /\ h' = NoHeader
    /\ sink' = NoSink
    /\ calls' = 0
    /\ UNCHANGED <<ret, hdr, neg, types, hj, mut, leg, sess, jw, cc>>

\* the handler returns
Return == phase \in {"serving", "hijacked"} /\ Cleanup(FALSE)

\* the handler panics, in Hijack or by itself
Abort == phase \in {"serving", "unwinding"} /\ Cleanup(TRUE)

\* SpecLife registers one name, with a factory that works or one that fails
LifeNames == {"gzip"}
LifeFuncs == {"NewGzip", FailingFunc, NilFunc}

InitLife == Init /\ types = {Pattern("text", "*")}

NextLife ==
    \/ \E name \in LifeNames, wf \in LifeFuncs : AddAlgorithm(name, wf)
    \/ \E name \in LifeNames, wf \in LifeFuncs : SetAlgorithm(name, wf)
    \/ \E name \in LifeNames, wf \in LifeFuncs : LiveAddAlgorithm(name, wf)
    \/ \E name \in LifeNames, wf \in LifeFuncs : LiveSetAlgorithm(name, wf)
    \/ Serve
    \/ \E status \in Statuses : WriteHeader(status)
    \/ \E bs \in Bodies : Write(bs)
    \/ Hijack
    \/ Return
    \/ Abort
    \/ Refused
    \/ Recovered

SpecLife == InitLife /\ [][NextLife]_vars

----------------------------------------------------------------------------
(* SpecRace: SetAlgorithm(name, nil) statement by statement, with the      *)
(* lookups of other goroutines in between.  Nothing synchronizes the two.  *)
(* The append of AddAlgorithm and SetAlgorithm is taken as one step.       *)

\* the lists c.algorithms can be after sliceutil.Delete and before the
\* reslice: the length is the old one, the codecs that stay stand first, in
\* order; what the slots behind them hold is up to sliceutil (the removed
\* codecs, or copies left behind), each holds some codec of the old list
Compacted(algs, name) ==
    LET kept == Delete(algs, name)
        tail == (Len(kept) + 1)..Len(algs)
        elems == {algs[i] : i \in 1..Len(algs)}
    IN {[i \in 1..Len(algs) |-> IF i <= Len(kept) THEN kept[i] ELSE t[i]] :
          t \in [tail -> elems]}

\* line 90: sliceutil.Delete moves the codecs within the array
DeleteInPlace(name) ==
    /\ Idle
    /\ \E a \in Compacted(algorithms, name) : algorithms' = a
    /\ mut' = [pc |-> 91, before |-> algorithms, after |-> Delete(algorithms, name),
               looked |-> FALSE, seen |-> <<>>]
    /\ UNCHANGED <<ret, hdr, neg, types, phase, resp, h, sink, calls, hj, done, leg, sess, jw, cc>>

\* findAlgorithm or putAlgorithm of a request reads c.algorithms for its loop
Lookup ==
    /\ mut.pc = 91
    /\ ~mut.looked
    /\ mut' = [mut EXCEPT !.looked = TRUE, !.seen = algorithms]
    /\ UNCHANGED <<algorithms, ret, hdr, neg, types, phase, resp, h, sink, calls, hj, done, leg, sess, jw, cc>>

\* line 91: c.algorithms = c.algorithms[:size], and the call returns
Reslice ==
    /\ mut.pc = 91
    /\ algorithms' = SubSeq(algorithms, 1, Len(mut.after))
    /\ ret' = "removed"
    /\ mut' = NoMut
    /\ UNCHANGED <<hdr, neg, types, phase, resp, h, sink, calls, hj, done, leg, sess, jw, cc>>

NextRace ==
    \/ \E name \in Names, wf \in WriterFuncs : AddAlgorithm(name, wf)
    \/ \E name \in Names, wf \in WriterFuncs : SetAlgorithm(name, wf)
    \/ \E name \in Names : DeleteInPlace(name)
    \/ Lookup
    \/ Reslice

SpecRace == InitNeg /\ [][NextRace]_vars

----------------------------------------------------------------------------
(* The specifications of the other middlewares, each with its own variable *)

SpecLegacy == InitNeg /\ [][LegacyRequest]_vars

SpecSession == InitNeg /\ [][Visit]_vars

SpecJwt == InitNeg /\ [][NextJwt]_vars

SpecPool == InitNeg /\ [][NextPool]_vars

----------------------------------------------------------------------------
(* Claims about findAlgorithm, checked under SpecNeg                       *)

Negotiated == neg.line # 0

\* the entries of the header that parsed
Good(header) == {k \in 1..Len(header) : ~header[k].Err}

\* the names the header lists explicitly
ExplicitNames(header) ==
    {header[k].Value : k \in {j \in Good(header) : header[j].Value # "*"}}

\* entry i is looked at before entry j: larger weight first, then a name
\* before the wildcard, then the header's order
Before(header, i, j) ==
    LET a == header[i]
        b == header[j]
    IN \/ a.Q > b.Q
       \/ /\ a.Q = b.Q
          /\ \/ a.Value # "*" /\ b.Value = "*"
             \/ (a.Value = "*") = (b.Value = "*") /\ i < j

NoCodec == neg.name = "" /\ neg.f = NilWriter

\* C1: a codec returned through a * entry is the first registered codec that
\* the header does not name explicitly; a codec the header names is never
\* selected through *.
C1_StarSkipsExplicit ==
    neg.line = 124 =>
        LET cand == {i \in 1..Len(algorithms) :
                       algorithms[i].name \notin ExplicitNames(hdr)}
        IN /\ cand # {}
           /\ neg.name = algorithms[Min(cand)].name
           /\ neg.name \notin ExplicitNames(hdr)

HasStarZero(header) ==
    \E k \in Good(header) : header[k].Value = "*" /\ header[k].Q = 0

\* C2 as stated: a header with the entry *;q=0 is always answered
\* notAcceptable with no codec.
C2_StarZeroAlways ==
    (Negotiated /\ HasStarZero(hdr)) => (neg.notAcceptable /\ NoCodec)

\* C2 amended: a header with the entry *;q=0 is answered notAcceptable with
\* no codec when no entry of it names a registered codec or identity and,
\* if a codec is registered, it has no * entry of non-zero weight.
C2_StarZeroWhenReached ==
    ( /\ Negotiated
      /\ HasStarZero(hdr)
      /\ \A k \in Good(hdr) :
            /\ hdr[k].Value \notin RegisteredNames(algorithms)
            /\ hdr[k].Value # "identity"
            /\ (hdr[k].Value = "*" /\ hdr[k].Q # 0) => algorithms = <<>> )
    => (neg.notAcceptable /\ NoCodec)

\* a *;q=0 entry decided although the header has other entries and codecs
\* are registered
C2_Witness ==
    /\ neg.line = 118
    /\ neg.notAcceptable
    /\ algorithms # <<>>
    /\ \E k \in Good(hdr) : hdr[k].Value \in Names
    /\ hdr[1].Value # "*"

\* the entries that name a registered codec
Explicit(header) ==
    {k \in Good(header) : header[k].Value \in RegisteredNames(algorithms)}

\* the entry of E looked at first
Best(header, E) ==
    CHOOSE k \in E : \A j \in E \ {k} : Before(header, k, j)

\* C3 as stated: when several entries name registered codecs, the codec of
\* the entry with the highest weight, the first of them on a tie, is selected.
C3_HighestWeight ==
    (Negotiated /\ Cardinality(Explicit(hdr)) >= 2) =>
        /\ neg.name = hdr[Best(hdr, Explicit(hdr))].Value
        /\ neg.f # NilWriter
        /\ ~neg.notAcceptable

\* C3 amended: the same, unless an identity entry is looked at before that
\* entry (higher weight, or the same weight and earlier in the header) or a
\* * entry has a higher weight.
C3_HighestWeightUnlessPreempted ==
    (Negotiated /\ Cardinality(Explicit(hdr)) >= 2) =>
        LET b == Best(hdr, Explicit(hdr)) IN
        (\A k \in Good(hdr) :
            (hdr[k].Value \in {"identity", "*"}) => Before(hdr, b, k))
        => /\ neg.name = hdr[b].Value
           /\ neg.f # NilWriter
           /\ ~neg.notAcceptable

\* gzip;q=0.8,deflate with both registered: deflate is selected although
\* gzip stands first in the header and in the registry
C3_Witness ==
    /\ Len(hdr) = 2
    /\ hdr[1] = [Value |-> "gzip", Q |-> 8, Err |-> FALSE]
    /\ hdr[2] = [Value |-> "deflate", Q |-> 10, Err |-> FALSE]
    /\ Len(algorithms) = 2
    /\ algorithms[1].name = "gzip"
    /\ algorithms[2].name = "deflate"
    /\ neg.name = "deflate"

\* C4: when the entry looked at first is identity, and so for the header
\* "identity" alone, no codec is returned and notAcceptable is false,
\* whatever is registered.
C4_IdentityNoCodec ==
    (Negotiated /\ \E k \in Good(hdr) :
         /\ hdr[k].Value = "identity"
         /\ \A j \in Good(hdr) \ {k} : Before(hdr, k, j))
    => (NoCodec /\ ~neg.notAcceptable)

\* identity decided although the header also names a registered codec
C4_Witness ==
    /\ neg.line = 132
    /\ NoCodec /\ ~neg.notAcceptable
    /\ Explicit(hdr) # {}

C26_ZeroWeightExcluded ==
    (Negotiated /\ neg.f # NilWriter) =>
        ~\E k \in Good(hdr) : hdr[k].Value = neg.name /\ hdr[k].Q = 0

----------------------------------------------------------------------------
(* Claims about the response object and the registry, checked under Spec   *)

\* the step in which the header goes to the real sink
HeaderSent == sink.status = 0 /\ sink'.status # 0

\* what was negotiated and sent allows compression
Eligible(r, sk) ==
    /\ r.f # NilWriter
    /\ bodyAllowedForStatus(sk.status)
    /\ canCompressed(types, sk.header.ContentType)

\* C5: once the first WriteHeader or Write has chosen where body bytes go,
\* no later call on the same response changes that choice.
C5_DecisionOnce ==
    [][(phase = "serving" /\ resp.wroteHeader /\ phase' = "serving")
         => resp'.writer = resp.writer]_vars

\* C6: a response sent with a status that allows no body, or with a
\* Content-Type the filter rejects, has no chunk written through a codec
\* writer and no Content-Encoding set.
C6_NeverCompressed ==
    ( /\ phase = "serving"
      /\ sink.status # 0
      /\ \/ ~bodyAllowedForStatus(sink.status)
         \/ ~canCompressed(types, sink.header.ContentType) )
    => /\ sink.coded = 0
       /\ h.ContentEncoding = ""
       /\ sink.header.ContentEncoding = ""

\* C7: when the response is compressed, the header sent has no
\* Content-Length, has Content-Encoding set to the negotiated name and Vary
\* extended by Content-Encoding, and every later chunk goes through the
\* codec writer bound to the real sink.
C7_CompressedResponse ==
    [][ /\ (HeaderSent /\ Eligible(resp', sink')) =>
             /\ ~sink'.header.ContentLength
             /\ sink'.header.ContentEncoding = resp'.encodingName
             /\ sink'.header.Vary = Append(h.Vary, "Content-Encoding")
             /\ resp'.writer = "compressWriter"
             /\ resp'.compressWriter.bound = "responseWriter"
        /\ (phase = "serving" /\ phase' = "serving"
              /\ sink.status # 0 /\ Eligible(resp, sink)) =>
             /\ sink'.raw = sink.raw
             /\ resp'.writer = "compressWriter"
             /\ resp'.compressWriter.bound = "responseWriter" ]_vars

\* C8: with no codec negotiated the header is sent as the handler left it:
\* Content-Length kept, no Vary and no Content-Encoding added.
C8_PassThroughHeaders ==
    [][(HeaderSent /\ resp.f = NilWriter) =>
          /\ sink'.header.ContentLength = h.ContentLength
          /\ sink'.header.Vary = h.Vary
          /\ sink'.header.ContentEncoding = h.ContentEncoding]_vars

\* C9: a response sent with a status that allows no body is not given a
\* Content-Type the handler did not set.
C9_NoContentTypeWithoutBody ==
    [][(HeaderSent /\ ~bodyAllowedForStatus(sink'.status)
          /\ h.ContentType = NoType)
         => sink'.header.ContentType = NoType]_vars

\* C10: the registry holds at most one codec per name and none named "",
\* identity or *.
C10_UniqueNames ==
    /\ \A i, j \in 1..Len(algorithms) :
          algorithms[i].name = algorithms[j].name => i = j
    /\ \A i \in 1..Len(algorithms) : algorithms[i].name \notin Reserved

\* the header that asks for one codec only
Only(name) == <<[Value |-> name, Q |-> 10, Err |-> FALSE]>>

\* C11: SetAlgorithm with a factory on a registered name overwrites that
\* codec where it stands, and a later acquisition for the name yields a
\* writer of the new factory; on an unregistered name it appends the codec.
C11_SetOverwritesInPlace ==
    [][Idle => \A name \in Names, wf \in WriterFuncs :
         SetAlgorithm(name, wf) =>
           IF name \in RegisteredNames(algorithms)
           THEN /\ Len(algorithms') = Len(algorithms)
                /\ \A i \in 1..Len(algorithms) :
                      algorithms'[i] = IF algorithms[i].name = name
                                       THEN algorithm(name, wf)
                                       ELSE algorithms[i]
                /\ findAlgorithm(algorithms', Only(name)).f.wf = wf
           ELSE algorithms' = Append(algorithms, algorithm(name, wf))]_vars

\* C12: AddAlgorithm panics on the name "", identity or * and on a nil
\* factory, returns false on a registered name, and in these cases leaves
\* the registry as it was; otherwise it returns true and the codec is the
\* last of the registry, the codecs before it unchanged.
C12_AddOutcomes ==
    [][Idle => \A name \in Names \cup Reserved, wf \in WriterFuncs \cup {NilFunc} :
         AddAlgorithm(name, wf) =>
           IF name \in Reserved \/ wf = NilFunc
           THEN ret' = "panic" /\ algorithms' = algorithms
           ELSE IF name \in RegisteredNames(algorithms)
           THEN ret' = "false" /\ algorithms' = algorithms
           ELSE /\ ret' = "true"
                /\ Len(algorithms') = Len(algorithms) + 1
                /\ algorithms'[Len(algorithms')] = algorithm(name, wf)
                /\ SubSeq(algorithms', 1, Len(algorithms)) = algorithms]_vars

\* AddAlgorithm has just returned false on a full registry
C12_Witness == ret = "false" /\ Len(algorithms) = MaxAlgs

----------------------------------------------------------------------------
(* Claims about a request from its first call to its end, checked under   *)
(* SpecLife                                                                *)

\* the step that ends a request that had a response object
Ends == phase \in {"serving", "hijacked", "unwinding"} /\ phase' = "idle"

\* C13: AddAlgorithm with a factory whose construction fails fails at the
\* call, and no request ends in a panic raised by the construction of a
\* writer.
C13_FailFast ==
    [][ /\ \A name \in LifeNames :
             AddAlgorithm(name, FailingFunc) => ret' = "panic"
        /\ phase' # "panicked" ]_vars

\* C14 as stated: a request that took a writer out of a pool ends with the
\* writer put into a pool, however it ends.
C14_AlwaysReturned ==
    [][(Ends /\ resp.f # NilWriter) =>
          /\ done'.put = "pooled"
          /\ \E i \in 1..Len(algorithms') : algorithms'[i].pool = resp'.f]_vars

\* C14 amended: a request that took a writer out of a pool ends with the
\* writer put into the pool of a codec of the negotiated name, however it
\* ends, if a codec of that name is registered at that time; if none is,
\* the writer is dropped and no pool changes.
C14_ReturnedIfRegistered ==
    [][(Ends /\ resp.f # NilWriter) =>
          IF resp.encodingName \in RegisteredNames(algorithms)
          THEN /\ done'.put = "pooled"
               /\ resp'.f.wf = resp.f.wf
               /\ \E i \in 1..Len(algorithms') :
                     /\ algorithms'[i].name = resp.encodingName
                     /\ algorithms'[i].pool = resp'.f
          ELSE /\ done'.put = "dropped"
               /\ algorithms' = algorithms]_vars

\* the handler panicked before a codec writer was spliced in, and the
\* writer is back in a pool
C14_Witness ==
    /\ phase = "idle"
    /\ done.panicked
    /\ done.closes = 0
    /\ done.put = "pooled"
    /\ resp.f # NilWriter
    /\ \E i \in 1..Len(algorithms) : algorithms[i].pool = resp.f

\* C15: a request whose response had a codec writer spliced in ends with
\* that writer closed once, and closed when it is put into a pool; an error
\* of Close is logged once, the request ends all the same, and the response
\* object goes back to respPool.
C15_CloseThenPut ==
    [][(Ends /\ resp.compressWriter # NilWriter) =>
          /\ done'.closes = 1
          /\ resp'.f.closes = resp.f.closes + 1
          /\ resp'.f.closes = 1
          /\ done'.put = "pooled" =>
                \E i \in 1..Len(algorithms') : algorithms'[i].pool = resp'.f
          /\ \A i \in 1..Len(algorithms') :
                algorithms'[i].pool.bound = "earlier"
                   => algorithms'[i].pool.closes = 1
          /\ done'.logged = (IF done'.closeErr THEN 1 ELSE 0)
          /\ done'.respPooled]_vars

\* Close returned an error at the end of a request; the writer is pooled
C15_Witness ==
    /\ phase = "idle"
    /\ done.closes = 1
    /\ done.closeErr
    /\ done.logged = 1
    /\ done.respPooled
    /\ done.put = "pooled"

\* C17: resp.Hijack returns what the sink's Hijack returned when the sink
\* is an http.Hijacker, and panics, the sink not being called, when it is not.
C17_HijackDelegates ==
    hj.ret # "none" =>
        IF hj.impl
        THEN hj.sink \in {"conn", "err"} /\ hj.ret = hj.sink
        ELSE hj.sink = "none" /\ hj.ret = "panic"

\* the connection was handed over after the header had been written
C17_Witness ==
    /\ phase = "hijacked"
    /\ hj.impl
    /\ hj.ret = "conn"
    /\ resp.wroteHeader

\* C18: a Write that is the first call on the response sends the header
\* with status 200, no body byte having reached the sink or the codec
\* writer before, also for an empty slice; a Write after the header was
\* written sends no header and leaves the status sent as it is.
C18_WriteSendsHeaderFirst ==
    [][\A bs \in Bodies :
         Write(bs) =>
           /\ calls = 0 =>
                /\ sink.status = 0 /\ sink.raw = 0 /\ sink.coded = 0
                /\ sink'.status = StatusOK
                /\ resp'.wroteHeader
           /\ resp.wroteHeader =>
                /\ sink'.status = sink.status
                /\ sink'.header = sink.header
           /\ (sink'.raw + sink'.coded > 0) => sink'.status # 0]_vars

\* the first call was a Write of a chunk that is not empty
C18_Witness ==
    /\ phase = "serving"
    /\ calls = 1
    /\ sink.raw + sink.coded = 1
    /\ sink.status = StatusOK

\* a response object is in use
InFlight == phase \in {"serving", "hijacked", "unwinding"}

\* C25: the codec writer that body bytes go through is bound to the sink
\* of the request in hand and was not closed since: bytes reach no writer
\* that is bound to its buffer or to the sink of an earlier request.
C25_ResetBeforeWrite ==
    /\ (InFlight /\ resp.writer = "compressWriter") =>
          /\ resp.compressWriter = resp.f
          /\ resp.f.bound = "responseWriter"
          /\ resp.f.closes = 0
    /\ (InFlight /\ sink.coded > 0) =>
          /\ resp.compressWriter = resp.f
          /\ resp.f.bound = "responseWriter"

\* body bytes went through the codec writer of the request, after a call
\* that had chosen the sink (a status without body, then status 200)
C25_Witness ==
    /\ phase = "serving"
    /\ calls = MaxCalls
    /\ sink.coded > 0
    /\ sink.status = 204
    /\ resp.writer = "compressWriter"
    /\ resp.f.bound = "responseWriter"

\* C28: the response object newResponse hands out is Pending (wroteHeader
\* false, writer and compressWriter nil) whatever the object was when it
\* went to respPool, the sink is untouched, and the name and the codec
\* writer are those of a findAlgorithm call on the registry as it is.
C28_FreshResponse ==
    [][(phase = "idle" /\ phase' = "serving") =>
          /\ ~resp'.wroteHeader
          /\ resp'.writer = "nil"
          /\ resp'.compressWriter = NilWriter
          /\ sink' = NoSink /\ h' = NoHeader /\ calls' = 0
          /\ \E header \in ShortHeaders :
               LET r == findAlgorithm(algorithms, header) IN
                 /\ ~r.notAcceptable
                 /\ resp'.encodingName = r.name
                 /\ IF r.f = NilWriter THEN resp'.f = NilWriter
                    ELSE \E g \in PoolGet(algorithms[NameIndex(algorithms, r.name)]) :
                           ~g.panic /\ resp'.f = g.f]_vars

\* a new response holds the writer that an earlier response, which went to
\* respPool with its decision made, had closed
C28_Witness ==
    /\ phase = "serving"
    /\ calls = 0
    /\ ~resp.wroteHeader
    /\ resp.writer = "nil"
    /\ resp.compressWriter = NilWriter
    /\ resp.f.bound = "earlier"
    /\ resp.f.closes = 1

----------------------------------------------------------------------------
(* Claim about handlers.NewCompress, checked under SpecLegacy              *)

\* the header lists t, in any case of letters
Lists(header, t) == \E i \in 1..Len(header) : ToLower(header[i]) = t

\* C24: when the header lists gzip and deflate, the gzip writer is built,
\* whatever their order, and Content-Encoding names the writer built.
C24_GzipPreferred ==
    (leg.next = "cw" /\ Lists(leg.header, "gzip") /\ Lists(leg.header, "deflate"))
    => (leg.gzw = "gzip" /\ leg.set /\ leg.encoding = leg.gzw)

----------------------------------------------------------------------------
(* Claims about the session middleware, checked under SpecSession          *)

\* C21: a request without session cookie is given an id that no request
\* had before, the answer sets the cookie to that id, and the handler is
\* called and answers 200.
C21_FirstVisitServed ==
    (sess.status # 0 /\ sess.cookie = Absent) =>
        /\ sess.id = sess.issued
        /\ sess.setCookie = QueryEscape(sess.id)
        /\ sess.next
        /\ sess.status = 200

\* C22: a request with the cookie of a session reaches the handler, and
\* GetValue returns there what the last request of the session saved, or
\* the zero value when the session was deleted (Logout) since.
C22_SavedOrZero ==
    (sess.status # 0 /\ sess.wanted # Absent) =>
        (sess.next /\ sess.got = sess.wanted)

----------------------------------------------------------------------------
(* Claims about the JWT verifier, checked under SpecJwt                    *)

\* C23: a token that VerifiyRefresh has passed on before is answered
\* Unauthorized whenever it is presented again, to VerifiyRefresh or to
\* Middleware.
C23_RefreshSingleUse ==
    (jw.status # 0 /\ jw.wasAccepted) => (jw.status = 401 /\ ~jw.next)

\* C29: a request is passed on only with a verified token of the kind the
\* entry is for, neither the token nor its claims being blocked; a token
\* of the other kind is answered Unauthorized, the handler is not called
\* and the token is not blocked by the attempt.
C29_KindChecked ==
    /\ jw.next =>
         /\ jw.token # NoToken /\ jw.sign # "nil"
         /\ Verify(jw.sign, jw.key, jw.token)
         /\ jw.token.refresh = jw.refresh
         /\ ~jw.wasBlocked /\ ~jw.claimsBlocked
    /\ (jw.status # 0 /\ jw.token # NoToken /\ jw.token.refresh # jw.refresh) =>
         /\ jw.status = 401 /\ ~jw.next
         /\ (jw.token \in jw.blocked => jw.wasBlocked)

\* a refresh token with a good signature was presented to Middleware and
\* refused, and is not blocked
C29_Witness ==
    /\ jw.status = 401 /\ ~jw.refresh /\ jw.token # NoToken /\ jw.token.refresh
    /\ jw.sign # "nil" /\ jw.token \notin jw.blocked

Unique(keys) == \A a, b \in 1..Len(keys) : keys[a].id = keys[b].id => a = b

KeyById ==
    /\ Unique(jw.keys)
    /\ jw.next =>
         \E i \in 1..Len(jw.keys) :
            /\ jw.keys[i].id = jw.token.kid
            /\ jw.sign = jw.keys[i].sign /\ jw.key = jw.keys[i].key
            /\ Verify(jw.keys[i].sign, jw.keys[i].key, jw.token)
    /\ (jw.status # 0 /\ \A i \in 1..Len(jw.keys) : jw.keys[i].id # jw.token.kid) =>
         (jw.status = 401 /\ ~jw.next)

DuplicatePanics ==
    /\ jw'.keys # jw.keys =>
         /\ ~jw'.panicked
         /\ \E id \in KeyIds, kind \in KeyKinds :
              /\ \A i \in 1..Len(jw.keys) : jw.keys[i].id # id
              /\ jw'.keys = Append(jw.keys, [id |-> id, sign |-> kind[1], key |-> kind[2]])
    /\ jw'.panicked => jw'.keys = jw.keys

\* C30: the ids of the keys are pairwise different: the keys change only
\* by an Add of an id that is not present, which does not panic, and an
\* Add that panics leaves the keys as they are; a request is passed on only
\* if the key registered under the kid of its token, with the method
\* registered there, verifies the signature, whatever alg says; a token
\* without kid or with a kid that is not registered is refused.
C30_KeyById == []KeyById /\ [][DuplicatePanics]_vars

\* two keys are registered, an Add has panicked since, and the token of
\* the last request was passed on although its alg names another method
\* than the one registered under its kid
C30_Witness ==
    /\ Len(jw.keys) = 2 /\ jw.panicked /\ jw.next
    /\ jw.token.alg # jw.sign /\ jw.token.kid = jw.keys[2].id

----------------------------------------------------------------------------
(* Claim about the pools under concurrent requests, checked under SpecPool *)

\* the writers that are in the pool of codec i
Pooled(i) == cc.algs[i].pool

\* C27: no two requests in flight hold the same writer, a writer a request
\* holds is in no pool, no writer is in two pools, and every writer in a
\* pool was last acquired under the name of the codec that owns the pool,
\* whatever the registry calls made while requests are in flight.
C27_OneHolderOwnPool ==
    /\ \A p, q \in Procs :
         (p # q /\ cc.req[p].w # NoWriter) => cc.req[p].w # cc.req[q].w
    /\ \A p \in Procs, i \in 1..Len(cc.algs) : cc.req[p].w \notin Pooled(i)
    /\ \A i, k \in 1..Len(cc.algs) : i # k => Pooled(i) \cap Pooled(k) = {}
    /\ \A i \in 1..Len(cc.algs) : \A w \in Pooled(i) : cc.under[w] = cc.algs[i].name

\* a request holds a writer built by the factory of the codec it was
\* acquired under, and the pool of that codec holds a writer built by
\* another factory: that one was acquired by the other request before the
\* codec was removed and set again, and came back afterwards
C27_Witness ==
    \E p \in Procs, i \in 1..Len(cc.algs) :
       /\ cc.req[p].w # NoWriter
       /\ cc.algs[i].name = cc.req[p].name
       /\ cc.maker[cc.req[p].w] = cc.algs[i].wf
       /\ \E w \in Pooled(i) : cc.maker[w] # cc.algs[i].wf

----------------------------------------------------------------------------
(* Claim about concurrent registry calls, checked under SpecRace           *)

\* C16: a lookup that runs while the registry is changed reads the list
\* as it was before the call or as it is after it, never a list between.
C16_AtomicSnapshot ==
    mut.looked => mut.seen \in {mut.before, mut.after}

====
